---- MODULE Spec2Model ----
(***************************************************************************)
(* A model of the two command-line analysis engines of analyseX:           *)
(*   scripts/analysis_engine.py              (DataAnalysisEngine, main)    *)
(*   scripts/statistical_analysis_engine.py  (analyze_data, __main__)      *)
(* One behaviour is one process run: arguments are fixed by Init, and the  *)
(* actions follow the entry point from the argument check to the exit.     *)
(*                                                                         *)
(* Numbers.  Column values are integers.  Derived statistics are kept as   *)
(* exact integers or as exact fractions (numerator, denominator); a        *)
(* Pearson coefficient r is kept as its sign and the fraction r^2, so that *)
(* every threshold test |r| >= a/b is the exact test b^2 r^2 >= a^2.       *)
(* Library calls whose result the model cannot compute (the k-means        *)
(* labels, the elbow index, which p-values are significant) are            *)
(* nondeterministic choices of the action that makes the call.             *)
(***************************************************************************)
EXTENDS Integers, Sequences, FiniteSets, TLC

VARIABLES
    engine,    \* which script runs: "analysis_engine" or "statistical"
    argv,      \* the command line: [argc, data, config, atype, columns]
    pc,        \* position of the process in its entry point
    df,        \* the DataFrame built from the data argument
    results,   \* the result object under construction
    exc,       \* message of the exception in flight ("" when none)
    stdout,    \* sequence of the objects printed to standard output
    exitCode,  \* process exit status (-1 while running)
    locals     \* analyze_data's locals: [analysis_data, numeric_cols]

vars == <<engine, argv, pc, df, results, exc, stdout, exitCode, locals>>

----------------------------------------------------------------------------
(* Bounds of the model *)

MaxRows == 4        \* rows of an input dataset: 0..MaxRows
MaxPeriods == 2     \* forecast horizons given by the caller: 0..MaxPeriods

----------------------------------------------------------------------------
(* Generic helpers *)

Range(s) == {s[i] : i \in DOMAIN s}

Min2(a, b) == IF a <= b THEN a ELSE b

Max2(a, b) == IF a >= b THEN a ELSE b

Abs(a) == IF a >= 0 THEN a ELSE -a

RECURSIVE SumSeq(_)
SumSeq(s) == IF s = <<>> THEN 0 ELSE Head(s) + SumSeq(Tail(s))

\* The subsequence of s at the positions (in increasing order) that are in keep.
RECURSIVE Pick(_, _, _)
Pick(s, keep, i) ==
    IF i > Len(s) THEN <<>>
    ELSE (IF i \in keep THEN <<s[i]>> ELSE <<>>) \o Pick(s, keep, i + 1)

\* Python's range(a, b) as a sequence.
PyRange(a, b) == [i \in 1..Max2(b - a, 0) |-> a + i - 1]

----------------------------------------------------------------------------
(* Tabular data.  A column is [name, numeric, vals, miss]: its dtype is     *)
(* numeric or object, vals are its cells and miss the rows whose cell is   *)
(* missing (NaN).  A frame is [nrows, cols].                               *)

\* Value patterns of the input columns, repeated cyclically over the rows.
Pattern(shape) ==
    CASE shape = "vee"  -> <<1, 0, 1, 4>>
      [] shape = "wave" -> <<2, 0, 3, 2>>
      [] OTHER          -> <<0>>

ShapeVals(shape, n) ==
    [i \in 1..n |->
        CASE shape \in {"ramp", "gap", "nan"} -> i
          [] shape = "double" -> 2 * i
          [] shape = "down"   -> n + 1 - i
          [] OTHER -> Pattern(shape)[((i - 1) % Len(Pattern(shape))) + 1]]

ShapeMiss(shape, n) ==
    CASE shape = "gap" -> {2} \cap (1..n)
      [] shape = "nan" -> 1..n
      [] OTHER         -> {}

NumColumn(name, shape, n) ==
    [name |-> name, numeric |-> TRUE,
     vals |-> ShapeVals(shape, n), miss |-> ShapeMiss(shape, n)]

TextColumn(name, n) ==
    [name |-> name, numeric |-> FALSE, vals |-> [i \in 1..n |-> 0], miss |-> {}]

Opt(present, col) == IF present THEN <<col>> ELSE <<>>

\* Frames of n rows over the columns region (text), sales, month, profit.
MkFrame(n, region, sales, month, profit) ==
    [nrows |-> n,
     cols  |-> Opt(region, TextColumn("region", n))
               \o Opt(sales # "none", NumColumn("sales", sales, n))
               \o Opt(month, NumColumn("month", "ramp", n))
               \o Opt(profit # "none", NumColumn("profit", profit, n))]

EmptyFrame == [nrows |-> 0, cols |-> <<>>]

SalesShapes == {"none", "double", "down", "gap"}

ProfitShapes == {"none", "vee", "wave", "nan"}

\* pd.DataFrame(rows): no rows give a frame with no columns.
Datasets ==
    {EmptyFrame} \cup
    {MkFrame(n, rg, sa, mo, pr) :
        n \in 1..MaxRows, rg \in BOOLEAN, sa \in SalesShapes,
        mo \in BOOLEAN, pr \in ProfitShapes}

\* Frames with a text column Order_Date as well, before or after the others.
Dated(d, first) ==
    [d EXCEPT !.cols = IF first THEN <<TextColumn("Order_Date", d.nrows)>> \o @
                       ELSE @ \o <<TextColumn("Order_Date", d.nrows)>>]

DatedFrames ==
    {Dated(MkFrame(MaxRows, FALSE, sa, TRUE, "vee"), first) :
        sa \in {"double", "gap"}, first \in BOOLEAN}

Columns(d) == [i \in DOMAIN d.cols |-> d.cols[i].name]

HasColumn(d, name) == \E i \in DOMAIN d.cols : d.cols[i].name = name

Col(d, name) == d.cols[CHOOSE i \in DOMAIN d.cols : d.cols[i].name = name]

IsNumeric(d, name) == HasColumn(d, name) /\ Col(d, name).numeric

IsNumericCol(c) == c.numeric

IsObjectCol(c) == ~c.numeric

\* df.select_dtypes(include=[np.number]).columns
NumericColumns(d) ==
    LET sel == SelectSeq(d.cols, IsNumericCol)
    IN [i \in DOMAIN sel |-> sel[i].name]

\* df.select_dtypes(include=['object']).columns
ObjectColumns(d) ==
    LET sel == SelectSeq(d.cols, IsObjectCol)
    IN [i \in DOMAIN sel |-> sel[i].name]

\* series.dropna()
DropNa(c) == Pick(c.vals, DOMAIN c.vals \ c.miss, 1)

\* data[cols]: the frame restricted to the named columns, in the order named.
Project(d, names) ==
    [nrows |-> d.nrows, cols |-> [i \in DOMAIN names |-> Col(d, names[i])]]

\* DataFrame.empty: no rows or no columns.
IsEmpty(d) == d.nrows = 0 \/ d.cols = <<>>

\* [col for col in names if col in allowed]
Filter(names, allowed) ==
    Pick(names, {i \in DOMAIN names : names[i] \in allowed}, 1)

----------------------------------------------------------------------------
(* Values shared by the routines *)

\* dict.get(key): None when the key is absent.
None == [none |-> TRUE]

Some(v) == [none |-> FALSE, val |-> v]

Get(cfg, key) == IF key \in DOMAIN cfg THEN Some(cfg[key]) ELSE None

\* What a call does: it returns a value or raises an exception.
Return(v) == [ok |-> TRUE, val |-> v]

Raise(msg) == [ok |-> FALSE, msg |-> msg]

\* The sums over the rows where both columns have a value, as pandas' corr
\* and the index alignment of the statistical tests take them.
Common(c1, c2) == (DOMAIN c1.vals \ c1.miss) \ c2.miss

RECURSIVE SumOver(_, _)
SumOver(f, rows) ==
    IF rows = {} THEN 0
    ELSE LET r == CHOOSE r \in rows : TRUE IN f[r] + SumOver(f, rows \ {r})

\* n*Sum(xy) - Sum(x)*Sum(y) over the rows in K.
CoMoment(x, y, K) ==
    Cardinality(K) * SumOver([i \in K |-> x[i] * y[i]], K)
        - SumOver(x, K) * SumOver(y, K)

\* Pearson's r of two columns as [nan, sgn, num, den]: r = sgn*sqrt(num/den);
\* NaN when a variance is zero or fewer than two rows are common.
Pearson(c1, c2) ==
    LET K   == Common(c1, c2)
        sxy == CoMoment(c1.vals, c2.vals, K)
        sxx == CoMoment(c1.vals, c1.vals, K)
        syy == CoMoment(c2.vals, c2.vals, K)
    IN IF sxx * syy = 0
       THEN [nan |-> TRUE, sgn |-> 0, num |-> 0, den |-> 1]
       ELSE [nan |-> FALSE,
             sgn |-> IF sxy > 0 THEN 1 ELSE IF sxy < 0 THEN -1 ELSE 0,
             num |-> sxy * sxy, den |-> sxx * syy]

\* abs(r)
PyAbs(r) == [r EXCEPT !.sgn = Abs(r.sgn)]

\* r >= a/b and r > a/b for a threshold a/b > 0 (false for NaN).
Ge(r, a, b) == ~r.nan /\ r.sgn > 0 /\ b * b * r.num >= a * a * r.den

Gt(r, a, b) == ~r.nan /\ r.sgn > 0 /\ b * b * r.num > a * a * r.den

\* abs(r1) >= abs(r2)
AbsGe(r1, r2) == r1.num * r2.den >= r2.num * r1.den

----------------------------------------------------------------------------
(* scripts/analysis_engine.py: class DataAnalysisEngine *)

\* get_data_summary; of basic_stats the count and the sum (the mean's
\* fraction) are kept, the other entries are aggregates of the same cells.
get_data_summary(d) ==
    [total_rows          |-> d.nrows,
     total_columns       |-> Len(d.cols),
     numeric_columns     |-> NumericColumns(d),
     categorical_columns |-> ObjectColumns(d),
     missing_values      |-> [nm \in Range(Columns(d)) |->
                                 Cardinality(Col(d, nm).miss)],
     basic_stats         |-> [nm \in Range(NumericColumns(d)) |->
                                 [count |-> Len(DropNa(Col(d, nm))),
                                  sum   |-> SumSeq(DropNa(Col(d, nm)))]]]

\* _interpret_correlation(corr_value)
_interpret_correlation(corr_value) ==
    IF Ge(corr_value, 7, 10) THEN "Strong"
    ELSE IF Ge(corr_value, 3, 10) THEN "Moderate"
    ELSE IF Ge(corr_value, 1, 10) THEN "Weak"
    ELSE "Very Weak"

\* The strength of one reported pair (the call of line 69); PairStrengthSigned
\* is the call without abs(): the label of the signed coefficient.
PairStrengthSigned(corr_value) == _interpret_correlation(corr_value)

PairStrength(corr_value) == _interpret_correlation(PyAbs(corr_value))

\* The numeric_cols of run_correlation_analysis and run_clustering_analysis.
SelectNumeric(d, columns) ==
    IF columns.none THEN NumericColumns(d)
    ELSE Filter(columns.val, Range(NumericColumns(d)))

\* The pairs (i, j), i < j, in the order of the two nested loops.
RECURSIVE PairsFrom(_, _, _)
PairsFrom(i, j, n) ==
    IF i >= n THEN <<>>
    ELSE IF j > n THEN PairsFrom(i + 1, i + 2, n)
    ELSE <<(<<i, j>>)>> \o PairsFrom(i, j + 1, n)

\* list.sort(key=abs(correlation), reverse=True): stable, largest first.
RECURSIVE InsertByAbs(_, _)
InsertByAbs(e, s) ==
    IF s = <<>> THEN <<e>>
    ELSE IF AbsGe(Head(s).correlation, e.correlation)
         THEN <<Head(s)>> \o InsertByAbs(e, Tail(s))
         ELSE <<e>> \o s

RECURSIVE SortByAbs(_)
SortByAbs(s) ==
    IF s = <<>> THEN <<>>
    ELSE InsertByAbs(s[Len(s)], SortByAbs(SubSeq(s, 1, Len(s) - 1)))

run_correlation_analysis(d, columns) ==
    LET numeric_cols == SelectNumeric(d, columns)
        n     == Len(numeric_cols)
        corr(i, j) == Pearson(Col(d, numeric_cols[i]), Col(d, numeric_cols[j]))
        pairs == PairsFrom(1, 2, n)
        kept  == SelectSeq(pairs, LAMBDA p : ~corr(p[1], p[2]).nan)
        correlations ==
            [k \in DOMAIN kept |->
                [var1 |-> numeric_cols[kept[k][1]],
                 var2 |-> numeric_cols[kept[k][2]],
                 correlation |-> corr(kept[k][1], kept[k][2]),
                 strength |-> PairStrength(corr(kept[k][1], kept[k][2]))]]
        sorted == SortByAbs(correlations)
    IN IF n < 2
       THEN [error |-> "Need at least 2 numeric columns for correlation analysis"]
       ELSE [correlation_matrix |->
                 [p \in (1..n) \X (1..n) |-> corr(p[1], p[2])],
             top_correlations |-> SubSeq(sorted, 1, Min2(10, Len(sorted))),
             summary |-> [pairs |-> Len(correlations), variables |-> n]]

\* The outcomes of the two model fits the model does not compute: the R^2
\* of the random forest and of the linear model, in hundredths.
FitOutcomes == {[rf |-> 90, lr |-> 50], [rf |-> 50, lr |-> 50], [rf |-> 50, lr |-> 90]}

\* A column that fillna(mean) leaves with NaN, or that has no mean at all.
AllMissing(c) == c.miss = DOMAIN c.vals

Unfittable(d, names) ==
    \E i \in DOMAIN names : ~Col(d, names[i]).numeric \/ AllMissing(Col(d, names[i]))

\* X = df[names].fillna(df[names].mean()): every row is kept and the cells that
\* miss a value get the column mean (a column with no value keeps its NaN).
X_fillna(d, names) ==
    [cols   |-> names,
     rows   |-> 1..d.nrows,
     filled |-> {c \in (1..d.nrows) \X Range(names) :
                    c[1] \in Col(d, c[2]).miss /\ ~AllMissing(Col(d, c[2]))}]

\* An outcome of a routine that had built its matrix X.
With(outcome, X) == outcome @@ [X |-> X]

\* model_comparison of two R2 values; PreferredOnTie is the comparison with >=.
PreferredOnTie(rf_r2, lr_r2) ==
    IF rf_r2 >= lr_r2 THEN "Random Forest" ELSE "Linear Regression"

model_comparison(rf_r2, lr_r2) ==
    IF rf_r2 > lr_r2 THEN "Random Forest" ELSE "Linear Regression"

\* run_regression_analysis(target_column, feature_columns); fit is what the
\* two fitted models score.
run_regression_analysis(d, target_column, feature_columns, fit) ==
    LET features ==
            IF feature_columns.none
            THEN Filter(NumericColumns(d), Range(NumericColumns(d)) \ {target_column})
            ELSE feature_columns.val
    IN IF ~HasColumn(d, target_column)
       THEN Return([error |-> "Target column " \o target_column \o " not found"])
       ELSE IF Len(features) = 0
       THEN Return([error |-> "No feature columns available for regression"])
       ELSE IF \E i \in DOMAIN features : ~HasColumn(d, features[i])
       THEN Raise("KeyError: feature column not in index")
       ELSE IF Unfittable(d, features \o <<target_column>>)
       THEN With(Raise("ValueError: input is not numeric or contains NaN"),
                 X_fillna(d, features \o <<target_column>>))
       ELSE With(Return(
            [target_column        |-> target_column,
             feature_columns      |-> features,
             random_forest_r2     |-> fit.rf,
             linear_regression_r2 |-> fit.lr,
             model_comparison     |-> model_comparison(fit.rf, fit.lr),
             summary              |-> [explains |-> Max2(fit.rf, fit.lr),
                                       of |-> target_column]]),
            X_fillna(d, features \o <<target_column>>))

\* The labellings KMeans(n_clusters=k).fit_predict can give n rows.
Labelings(n, k) == [1..n -> 0..(k - 1)]

\* K_range of run_clustering_analysis
K_range(d) == PyRange(2, Min2(8, d.nrows \div 2))

\* The number of clusters run_clustering_analysis fits in the end; elbow is
\* diffs.index(max(diffs)), an index of the inertia differences.
ChosenClusters(d, n_clusters, elbow) ==
    IF ~n_clusters.none THEN n_clusters.val
    ELSE IF Len(K_range(d)) >= 2 THEN K_range(d)[elbow + 1]
    ELSE 3

ElbowChoices(d) == 0..Max2(Len(K_range(d)) - 2, 0)

\* An outcome of the final KMeans(n_clusters=k).fit_predict(X_scaled).
FinalFit(outcome, k) == outcome @@ [n_clusters |-> k]

\* The sweep over K_range fits first, and raises on a matrix that holds a NaN.
SweepFits(d, n_clusters) == n_clusters.none /\ Len(K_range(d)) > 0

\* run_clustering_analysis(columns, n_clusters); labels is what the final
\* fit_predict returns.
run_clustering_analysis(d, columns, n_clusters, elbow, labels) ==
    LET numeric_cols == SelectNumeric(d, columns)
        k == ChosenClusters(d, n_clusters, elbow)
        X == X_fillna(d, numeric_cols)
        size(i) == Cardinality({r \in X.rows : labels[r] = i})
    IN IF Len(numeric_cols) < 2
       THEN Return([error |-> "Need at least 2 numeric columns for clustering"])
       ELSE IF \E i \in DOMAIN numeric_cols : AllMissing(Col(d, numeric_cols[i]))
       THEN IF SweepFits(d, n_clusters)
            THEN With(Raise("ValueError: Input X contains NaN."), X)
            ELSE FinalFit(With(Raise("ValueError: Input X contains NaN."), X), k)
       ELSE IF Cardinality(X.rows) < k
       THEN FinalFit(With(Raise("ValueError: n_samples should be >= n_clusters."), X), k)
       ELSE FinalFit(With(Return(
            [n_clusters          |-> k,
             cluster_assignments |-> [r \in 1..d.nrows |-> labels[r]],
             cluster_summary     |->
                 [i \in 1..k |->
                     [cluster_id |-> i - 1,
                      size       |-> size(i - 1),
                      percentage |-> [num |-> size(i - 1) * 100, den |-> d.nrows]]],
             features_used       |-> [type  |-> IF columns.none THEN "Index" ELSE "list",
                                      names |-> numeric_cols],
             summary             |-> [groups |-> k]]), X), k)

\* run_statistical_tests(test_type, variables); significant is p_value < 0.05,
\* a numpy.bool_.
run_statistical_tests(d, test_type, variables, significant) ==
    LET present == Filter(variables, Range(Columns(d)))
        textual == \E i \in DOMAIN present : ~Col(d, present[i]).numeric
        found(name) ==
            [test_type   |-> name,
             variables   |-> variables,
             significant |-> [type |-> "numpy.bool_", val |-> significant]]
    IN IF test_type = "ttest" /\ Len(variables) = 2
       THEN IF Len(present) = 2
            THEN IF textual THEN Raise("TypeError: unsupported operand type")
                 ELSE Return(found("Independent T-Test"))
            ELSE Return(<<>>)
       ELSE IF test_type = "anova" /\ Len(variables) >= 2 /\ Len(present) >= 2
       THEN IF textual THEN Raise("TypeError: unsupported operand type")
            ELSE Return(found("One-Way ANOVA"))
       ELSE Return(<<>>)

\* A forecast value num/den + (half/100)*std_error, den being the result's.
Point(num) == [num |-> num, half |-> 0]

Shift(v, hundredths) == [v EXCEPT !.half = @ + hundredths]

\* The least-squares line of series y over x = 0..len-1 (stats.linregress):
\* its value at t is FNum(y, t) / FDen(y).
Sx(y) == SumSeq([j \in DOMAIN y |-> j - 1])

Sxx(y) == Len(y) * SumSeq([j \in DOMAIN y |-> (j - 1) * (j - 1)]) - Sx(y) * Sx(y)

Sxy(y) == Len(y) * SumSeq([j \in DOMAIN y |-> (j - 1) * y[j]]) - Sx(y) * SumSeq(y)

FDen(y) == Len(y) * Sxx(y)

FNum(y, t) == Len(y) * Sxy(y) * t + SumSeq(y) * Sxx(y) - Sxy(y) * Sx(y)

\* mse = mean(residuals**2), a fraction; std_error is its square root.
Mse(y) ==
    [num |-> SumSeq([j \in DOMAIN y |->
                 (FDen(y) * y[j] - FNum(y, j - 1)) * (FDen(y) * y[j] - FNum(y, j - 1))]),
     den |-> Len(y) * FDen(y) * FDen(y)]

\* forecast_upper and forecast_lower of one forecast value
Upper(v) == Shift(v, 196)

\* LowerOneSided: the lower bound with the one-sided 1.645 quantile.
LowerOneSided(v) == Shift(v, -165)

Lower(v) == Shift(v, -196)

\* run_time_series_forecast(target_column, periods)
run_time_series_forecast(d, target_column, periods) ==
    LET data == DropNa(Col(d, target_column))
        future_x == PyRange(Len(data), Len(data) + periods)
        forecast == [i \in DOMAIN future_x |-> Point(FNum(data, future_x[i]))]
    IN IF ~HasColumn(d, target_column)
       THEN Return([error |-> "Target column " \o target_column \o " not found"])
       ELSE IF Len(data) < 3
       THEN Return([error |-> "Need at least 3 data points for forecasting"])
       ELSE IF ~Col(d, target_column).numeric
       THEN Raise("TypeError: unsupported operand type")
       ELSE Return(
            [target_column      |-> target_column,
             historical_data    |-> data,
             forecast           |-> forecast,
             forecast_upper     |-> [i \in DOMAIN forecast |-> Upper(forecast[i])],
             forecast_lower     |-> [i \in DOMAIN forecast |-> Lower(forecast[i])],
             den                |-> FDen(data),
             std_error_squared  |-> Mse(data),
             trend_slope        |-> [num |-> Sxy(data), den |-> Sxx(data)],
             periods_forecasted |-> periods])

----------------------------------------------------------------------------
(* Command lines.  A JSON argument is unparsable, a parsed number, or a     *)
(* parsed value of the expected kind (rows, a configuration, a name list).  *)

BadJson == [json |-> "bad"]

NumberJson == [json |-> "number"]

Parsed(v) == [json |-> "value", val |-> v]

NoArg == [json |-> "absent"]

ColumnLists ==
    {<<"sales", "profit">>, <<"region">>, <<"nope">>, <<"month", "sales", "region">>}

\* Analysis configurations of analysis_engine.py
AEConfigs ==
    {[type |-> "summary"], [periods |-> 1], [type |-> "comprehensive"]}
    \cup {[type |-> "correlation"]}
    \cup {[type |-> "correlation", columns |-> c] : c \in ColumnLists}
    \cup {[type |-> "regression"]}
    \cup {[type |-> "regression", target_column |-> t] : t \in {"profit", "nope"}}
    \cup {[type |-> "regression", target_column |-> "profit", feature_columns |-> f] :
             f \in {<<>>, <<"sales">>}}
    \cup {[type |-> "clustering"], [type |-> "clustering", n_clusters |-> 2]}
    \cup {[type |-> "clustering", columns |-> c] :
             c \in {<<"sales", "profit">>, <<"region">>}}
    \cup {[type |-> "clustering", columns |-> <<"sales", "month">>, n_clusters |-> 2]}
    \cup {[type |-> "statistical_tests"]}
    \cup {[type |-> "statistical_tests", test_type |-> t, variables |-> v] :
             t \in {"ttest", "anova"}, v \in {<<"sales", "profit">>, <<"sales">>}}
    \cup {[type |-> "forecast"]}
    \cup {[type |-> "forecast", target_column |-> t] : t \in {"sales", "nope", "region"}}
    \cup {[type |-> "forecast", target_column |-> "sales", periods |-> p] :
             p \in 0..MaxPeriods}

DefaultFrame == MkFrame(3, FALSE, "double", TRUE, "none")

AEArgv(argc, data, config) ==
    [argc |-> argc, data |-> data, config |-> config, atype |-> "", columns |-> NoArg]

\* len(sys.argv) counts the script name: 3 is the two arguments main needs.
AECommandLines ==
    {AEArgv(n, Parsed(DefaultFrame), Parsed([type |-> "summary"])) : n \in {1, 2}}
    \cup {AEArgv(3, x, Parsed([type |-> "summary"])) : x \in {BadJson, NumberJson}}
    \cup {AEArgv(3, Parsed(DefaultFrame), BadJson)}
    \cup {AEArgv(n, Parsed(d), Parsed(c)) : n \in {3}, d \in Datasets, c \in AEConfigs}

----------------------------------------------------------------------------
(* scripts/analysis_engine.py: main() *)

AE == "analysis_engine"

cfg == argv.config.val

analysis_type == IF "type" \in DOMAIN cfg THEN cfg.type ELSE "summary"

\* json.dumps(results) raises TypeError on a pandas Index and on a numpy.bool_.
Unserializable(r) ==
    \/ "features_used" \in DOMAIN r /\ r.features_used.type = "Index"
    \/ "significant" \in DOMAIN r /\ r.significant.type = "numpy.bool_"

Serializable(res) == \A a \in DOMAIN res.analyses : ~Unserializable(res.analyses[a])

\* Where an exception raised inside main's try block goes: its except clause.
AE_Uncaught == "crashed"

AE_Handler == "except"

\* results['analyses'][name] = <call>: the call's value is stored, or its
\* exception leaves for the handler of main.
Store(name, outcome, nextpc) ==
    IF outcome.ok
    THEN /\ results' = [results EXCEPT !.analyses = (name :> outcome.val) @@ @]
         /\ pc' = nextpc
         /\ exc' = exc
    ELSE /\ exc' = outcome.msg
         /\ pc' = AE_Handler
         /\ results' = results

\* The matrix X a routine built stays its local; a routine that returned
\* before building one leaves the locals as they were.
Keep(outcome) ==
    locals' = IF "X" \in DOMAIN outcome
              THEN [v \in DOMAIN outcome \ {"ok", "val", "msg"} |-> outcome[v]]
              ELSE locals

\* analysis_config['key'] of a missing key raises KeyError.
KeyError(key) ==
    /\ exc' = "'" \o key \o "'"
    /\ pc' = AE_Handler
    /\ results' = results

AE_CheckArgs ==
    /\ engine = AE /\ pc = "start"
    /\ IF argv.argc < 3
       THEN /\ stdout' = Append(stdout,
                [error |-> "Usage: python analysis_engine.py <data_json> <analysis_config>"])
            /\ pc' = "done"
            /\ exitCode' = 0
       ELSE /\ pc' = "load"
            /\ UNCHANGED <<stdout, exitCode>>
    /\ UNCHANGED <<engine, argv, df, results, exc, locals>>

\* json.loads of both arguments, DataAnalysisEngine(data_json), the data summary.
AE_Load ==
    /\ engine = AE /\ pc = "load"
    /\ IF argv.data.json = "bad" \/ argv.config.json = "bad"
       THEN /\ exc' = "Expecting value: line 1 column 1 (char 0)"
            /\ pc' = AE_Handler
            /\ UNCHANGED <<df, results>>
       ELSE IF argv.data.json = "number"
       THEN /\ exc' = "DataFrame constructor not properly called!"
            /\ pc' = AE_Handler
            /\ UNCHANGED <<df, results>>
       ELSE /\ df' = argv.data.val
            /\ results' = [data_summary |-> get_data_summary(argv.data.val),
                           analyses |-> <<>>]
            /\ pc' = "dispatch"
            /\ exc' = exc
    /\ UNCHANGED <<engine, argv, stdout, exitCode, locals>>

AtCorrelation == engine = AE /\ pc = "dispatch" /\ analysis_type = "correlation"

AE_Correlation ==
    /\ AtCorrelation
    /\ Store("correlation", Return(run_correlation_analysis(df, Get(cfg, "columns"))),
             "emit")
    /\ UNCHANGED <<engine, argv, df, stdout, exitCode, locals>>

AE_Regression ==
    /\ engine = AE /\ pc = "dispatch" /\ analysis_type = "regression"
    /\ IF "target_column" \notin DOMAIN cfg
       THEN KeyError("target_column") /\ locals' = locals
       ELSE \E fit \in FitOutcomes :
                LET outcome == run_regression_analysis(df, cfg.target_column,
                                   Get(cfg, "feature_columns"), fit)
                IN Store("regression", outcome, "emit") /\ Keep(outcome)
    /\ UNCHANGED <<engine, argv, df, stdout, exitCode>>

AE_Clustering ==
    /\ engine = AE /\ pc = "dispatch" /\ analysis_type = "clustering"
    /\ \E elbow \in ElbowChoices(df) :
          \E labels \in Labelings(df.nrows,
                                  ChosenClusters(df, Get(cfg, "n_clusters"), elbow)) :
              LET outcome == run_clustering_analysis(df, Get(cfg, "columns"),
                                 Get(cfg, "n_clusters"), elbow, labels)
              IN Store("clustering", outcome, "emit") /\ Keep(outcome)
    /\ UNCHANGED <<engine, argv, df, stdout, exitCode>>

AE_StatisticalTests ==
    /\ engine = AE /\ pc = "dispatch" /\ analysis_type = "statistical_tests"
    /\ IF "test_type" \notin DOMAIN cfg
       THEN KeyError("test_type")
       ELSE IF "variables" \notin DOMAIN cfg
       THEN KeyError("variables")
       ELSE \E significant \in BOOLEAN :
                Store("statistical_tests",
                      run_statistical_tests(df, cfg.test_type, cfg.variables, significant),
                      "emit")
    /\ UNCHANGED <<engine, argv, df, stdout, exitCode, locals>>

AtForecast == engine = AE /\ pc = "dispatch" /\ analysis_type = "forecast"

AE_Forecast ==
    /\ AtForecast
    /\ IF "target_column" \notin DOMAIN cfg
       THEN KeyError("target_column")
       ELSE Store("forecast",
                  run_time_series_forecast(df, cfg.target_column,
                      IF "periods" \in DOMAIN cfg THEN cfg.periods ELSE 6),
                  "emit")
    /\ UNCHANGED <<engine, argv, df, stdout, exitCode, locals>>

\* 'comprehensive': the batch runs only with at least 2 numeric columns.
AE_Comprehensive ==
    /\ engine = AE /\ pc = "dispatch" /\ analysis_type = "comprehensive"
    /\ pc' = IF Len(results.data_summary.numeric_columns) >= 2
             THEN "batch_correlation" ELSE "emit"
    /\ UNCHANGED <<engine, argv, df, results, exc, stdout, exitCode, locals>>

AtBatchCorrelation == engine = AE /\ pc = "batch_correlation"

AE_BatchCorrelation ==
    /\ AtBatchCorrelation
    /\ Store("correlation", Return(run_correlation_analysis(df, None)),
             "batch_regression")
    /\ UNCHANGED <<engine, argv, df, stdout, exitCode, locals>>

AE_BatchRegression ==
    /\ engine = AE /\ pc = "batch_regression"
    /\ LET numeric_cols == results.data_summary.numeric_columns
       IN \E fit \in FitOutcomes :
              LET outcome == run_regression_analysis(df, numeric_cols[1],
                                 Some(Tail(numeric_cols)), fit)
              IN Store("regression", outcome, "batch_clustering") /\ Keep(outcome)
    /\ UNCHANGED <<engine, argv, df, stdout, exitCode>>

AE_BatchClustering ==
    /\ engine = AE /\ pc = "batch_clustering"
    /\ \E elbow \in ElbowChoices(df) :
          \E labels \in Labelings(df.nrows, ChosenClusters(df, None, elbow)) :
              LET outcome == run_clustering_analysis(df, None, None, elbow, labels)
              IN Store("clustering", outcome, "emit") /\ Keep(outcome)
    /\ UNCHANGED <<engine, argv, df, stdout, exitCode>>

\* 'summary' and every type no branch of main names: nothing is added.
AE_NoAnalysis ==
    /\ engine = AE /\ pc = "dispatch"
    /\ analysis_type \notin {"correlation", "regression", "clustering",
                             "statistical_tests", "forecast", "comprehensive"}
    /\ pc' = "emit"
    /\ UNCHANGED <<engine, argv, df, results, exc, stdout, exitCode, locals>>

\* print(json.dumps(results, indent=2)): dumps raises before anything is printed.
AE_Emit ==
    /\ engine = AE /\ pc = "emit"
    /\ IF Serializable(results)
       THEN /\ stdout' = Append(stdout, results)
            /\ pc' = "done"
            /\ exitCode' = 0
            /\ exc' = exc
       ELSE /\ exc' = "Object is not JSON serializable"
            /\ pc' = AE_Handler
            /\ UNCHANGED <<stdout, exitCode>>
    /\ UNCHANGED <<engine, argv, df, results, locals>>

\* except Exception as e: print the error object; main returns.
AE_Except ==
    /\ engine = AE /\ pc = "except"
    /\ stdout' = Append(stdout, [error |-> "Analysis failed: " \o exc])
    /\ pc' = "done"
    /\ exitCode' = 0
    /\ UNCHANGED <<engine, argv, df, results, exc, locals>>

----------------------------------------------------------------------------
(* scripts/statistical_analysis_engine.py: the per-type routines *)

\* Exact fractions [num, den] with den > 0; nan marks a NaN.
Frac(n, d) == [nan |-> FALSE, num |-> n, den |-> d]

NaN == [nan |-> TRUE, num |-> 0, den |-> 1]

FracAdd(a, b) ==
    IF a.nan \/ b.nan THEN NaN ELSE Frac(a.num * b.den + b.num * a.den, a.den * b.den)

\* a > b; every comparison with NaN is false.
FracGt(a, b) == ~a.nan /\ ~b.nan /\ a.num * b.den > b.num * a.den

\* m*Sum(y^2) - Sum(y)^2
Syy(y) == Len(y) * SumSeq([j \in DOMAIN y |-> y[j] * y[j]]) - SumSeq(y) * SumSeq(y)

\* The r_value of stats.linregress(arange(len(y)), y): 0 when y is constant.
TrendR(y) ==
    IF Sxx(y) * Syy(y) = 0 THEN [nan |-> FALSE, sgn |-> 0, num |-> 0, den |-> 1]
    ELSE [nan |-> FALSE,
          sgn |-> IF Sxy(y) > 0 THEN 1 ELSE IF Sxy(y) < 0 THEN -1 ELSE 0,
          num |-> Sxy(y) * Sxy(y), den |-> Sxx(y) * Syy(y)]

\* "strong" if abs(r) > 0.7 else "moderate" if abs(r) > 0.4 else "weak"
StrengthLabel(r) ==
    IF Gt(PyAbs(r), 7, 10) THEN "strong"
    ELSE IF Gt(PyAbs(r), 4, 10) THEN "moderate"
    ELSE "weak"

\* The value each routine starts from, and returns when it has nothing to do.
EmptyResults == [insights |-> <<>>, statistics |-> <<>>, recommendations |-> <<>>]

\* 'month', 'date' or 'time' in col.lower(), over the column names in use.
TimeLike(name) == name \in {"month", "Order_Date"}

\* time_col of perform_time_series_analysis; FirstColumn is time_col without
\* the search by name.
FirstColumn(data) == Columns(data)[1]

TimeColumn(data) ==
    LET names == Columns(data)
        hits  == {i \in DOMAIN names : TimeLike(names[i])}
    IN IF hits # {} THEN names[CHOOSE i \in hits : \A j \in hits : i <= j]
       ELSE names[1]

\* perform_time_series_analysis; the seasonality and volatility labels, which
\* are further aggregates of the same series, are left out.
perform_time_series_analysis(data, numeric_cols) ==
    LET time_col == TimeColumn(data)
        series(c) == DropNa(Col(data, c))
        done == {c \in Range(numeric_cols) : c # time_col /\ Len(series(c)) > 3}
    IN [statistics |->
            [c \in done |->
                [mean        |-> Frac(SumSeq(series(c)), Len(series(c))),
                 trend_slope |-> Frac(Sxy(series(c)), Sxx(series(c)))]],
        insights |->
            [c \in done |->
                [trend_direction |-> IF Sxy(series(c)) > 0 THEN "increasing"
                                     ELSE IF Sxy(series(c)) < 0 THEN "decreasing"
                                     ELSE "stable",
                 trend_strength  |-> StrengthLabel(TrendR(series(c)))]],
        recommendations |-> <<"Use trend analysis for strategic planning",
                              "Monitor seasonal patterns for inventory management",
                              "Consider external factors affecting volatility">>]

\* The rows of data[cols].dropna(): those with a value in every column named.
\* AllRows is X without dropna(): every row of the data.
AllRows(data, cols) == 1..data.nrows

CompleteRows(data, cols) ==
    {r \in 1..data.nrows : \A i \in DOMAIN cols : r \notin Col(data, cols[i]).miss}

Front(s) == SubSeq(s, 1, Len(s) - 1)

\* X = data[names].dropna(): the rows that miss no value; no cell is filled.
X_dropna(data, names) ==
    [cols |-> names, rows |-> CompleteRows(data, names), filled |-> {}]

\* The locals of a routine of analyze_data once it has built its matrix X (with
\* fewer than 2 numeric columns it returns before).
KeepX(data, numeric_cols) ==
    locals' = IF Len(numeric_cols) < 2 THEN locals
              ELSE [X |-> X_dropna(data, numeric_cols)] @@ locals

\* "excellent" / "good" / "moderate" / "poor" of an R^2 in hundredths
ModelQuality(r2) ==
    IF r2 > 80 THEN "excellent" ELSE IF r2 > 60 THEN "good"
    ELSE IF r2 > 40 THEN "moderate" ELSE "poor"

\* perform_regression_analysis; r2 (hundredths) and top_driver are what the
\* fitted LinearRegression gives.
perform_regression_analysis(data, numeric_cols, r2, top_driver) ==
    LET target_col   == numeric_cols[Len(numeric_cols)]
        feature_cols == Front(numeric_cols)
        common_idx   == CompleteRows(data, numeric_cols)
    IN IF Len(numeric_cols) < 2 THEN EmptyResults
       ELSE IF Cardinality(common_idx) < 3 THEN EmptyResults
       ELSE [statistics |->
                 [target_variable |-> target_col,
                  r_squared |-> r2,
                  features |-> feature_cols],
             insights |->
                 [model_quality |-> ModelQuality(r2),
                  top_driver |-> top_driver,
                  explained_variance |-> r2,
                  predictability |-> IF r2 > 70 THEN "high"
                                     ELSE IF r2 > 40 THEN "moderate" ELSE "low"],
             recommendations |->
                 <<"Focus on " \o top_driver \o " as it has the highest impact on "
                       \o target_col,
                   "Use this model for forecasting and scenario planning",
                   "Monitor key drivers regularly for business optimization">>]

\* The cluster counts the loop of perform_clustering_analysis tries.
ClusterCounts(rows) == Range(PyRange(2, Min2(6, rows)))

\* perform_clustering_analysis; optimal_clusters is the count the score loop
\* keeps and labels what the final fit_predict gives the complete rows.
perform_clustering_analysis(data, numeric_cols, optimal_clusters, labels) ==
    LET X == CompleteRows(data, numeric_cols)
        n == Cardinality(X)
        size(i) == Cardinality({r \in 1..n : labels[r] = i})
    IN IF Len(numeric_cols) < 2 THEN EmptyResults
       ELSE IF n < 3 THEN EmptyResults
       ELSE [statistics |->
                 [optimal_clusters |-> optimal_clusters,
                  cluster_statistics |->
                      [i \in 0..(optimal_clusters - 1) |->
                          [size |-> size(i),
                           percentage |-> Frac(size(i) * 100, n)]]],
             insights |-> [natural_groupings |-> optimal_clusters],
             recommendations |->
                 <<"Your data naturally forms distinct groups",
                   "Use clustering for customer segmentation or product categorization",
                   "Focus on the main components that explain most variation">>]

\* The columns the normality sweep tests, and the pairs the correlation sweep tests.
NormalityTested(data, numeric_cols) ==
    {c \in Range(numeric_cols) : Len(DropNa(Col(data, c))) > 3}

CorrelationTested(data, numeric_cols) ==
    {p \in Range(PairsFrom(1, 2, Len(numeric_cols))) :
        Cardinality(Common(Col(data, numeric_cols[p[1]]),
                           Col(data, numeric_cols[p[2]]))) > 3}

\* perform_statistical_tests; normal and significant are the columns and the
\* pairs whose p-value passes its test.
perform_statistical_tests(data, numeric_cols, normal, significant) ==
    LET tested == NormalityTested(data, numeric_cols)
        pairs  == CorrelationTested(data, numeric_cols)
        r(p)   == Pearson(Col(data, numeric_cols[p[1]]), Col(data, numeric_cols[p[2]]))
    IN IF Len(numeric_cols) < 2 THEN EmptyResults
       ELSE [statistics |->
                 [normality_tests |->
                      [c \in tested |-> [is_normal |-> c \in normal,
                                         test_used |-> "shapiro"]],
                  correlation_tests |->
                      [p \in pairs |->
                          [var1 |-> numeric_cols[p[1]],
                           var2 |-> numeric_cols[p[2]],
                           correlation |-> r(p),
                           significant |-> [type |-> "numpy.bool_",
                                            val |-> p \in significant],
                           strength |-> StrengthLabel(r(p))]]],
             insights |->
                 [normal_distributions |-> Cardinality(normal \cap tested),
                  significant_relationships |-> Cardinality(significant \cap pairs),
                  data_quality |-> IF 2 * Cardinality(normal \cap tested) > Len(numeric_cols)
                                   THEN "good" ELSE "requires_attention"],
             recommendations |->
                 <<"Use parametric tests for normally distributed variables",
                   "Focus on statistically significant relationships",
                   "Consider data transformation for non-normal variables">>]

\* series.std()**2: the sample variance, NaN for a single value.
Variance(y) ==
    IF Len(y) < 2 THEN NaN ELSE Frac(Syy(y), Len(y) * (Len(y) - 1))

RECURSIVE FracSum(_)
FracSum(s) == IF s = <<>> THEN Frac(0, 1) ELSE FracAdd(Head(s), FracSum(Tail(s)))

\* total_variance / len(column_stats) * 1.5; MeanVariance is the threshold
\* without the factor 1.5.
MeanVariance(total, k) == IF total.nan THEN NaN ELSE Frac(total.num, total.den * k)

Threshold(total, k) == IF total.nan THEN NaN ELSE Frac(total.num * 3, total.den * k * 2)

\* perform_exploratory_analysis
\* data[col] of a label the frame holds twice is a DataFrame, not a Series.
Duplicated(data, col) ==
    Cardinality({j \in DOMAIN data.cols : data.cols[j].name = col}) > 1

\* except Exception as e: results["error"] = ...; the routine's results so far
\* are returned with it.
Failed(results_, msg) == [error |-> msg] @@ results_

\* perform_exploratory_analysis: float(series.mean()) of a DataFrame with rows
\* raises TypeError inside the try block.
perform_exploratory_analysis(data, numeric_cols) ==
    LET series(c) == DropNa(Col(data, c))
        stated == Filter(numeric_cols, {c \in Range(numeric_cols) : Len(series(c)) > 0})
        var(c) == Variance(series(c))
        total_variance == FracSum([i \in DOMAIN stated |-> var(stated[i])])
        high_variance_cols ==
            Filter(stated, {c \in Range(stated) :
                               FracGt(var(c), Threshold(total_variance, Len(stated)))})
    IN IF \E c \in Range(stated) : Duplicated(data, c)
       THEN Failed(EmptyResults,
                "Exploratory analysis failed: cannot convert the series to <class 'float'>")
       ELSE
       [statistics |->
            [column_statistics |->
                 [c \in Range(stated) |->
                     [count |-> Len(series(c)),
                      mean  |-> Frac(SumSeq(series(c)), Len(series(c))),
                      variance |-> var(c)]],
             high_variance_columns |-> high_variance_cols,
             data_shape |-> [rows |-> data.nrows, columns |-> Len(numeric_cols)]],
        insights |->
            [data_quality |-> "good",
             most_variable_columns |->
                 SubSeq(high_variance_cols, 1, Min2(3, Len(high_variance_cols))),
             analysis_readiness |-> "ready"],
        recommendations |->
            <<"Data is ready for detailed analysis",
              "Focus on high-variance columns for insights",
              "Consider specific analysis types based on business goals">>]

----------------------------------------------------------------------------
(* scripts/statistical_analysis_engine.py: analyze_data and __main__ *)

SE == "statistical"

SETypes ==
    {"time_series", "time_series_forecast", "regression_feature_importance",
     "pca_clustering", "statistical_tests", "exploratory"}

\* A selection that names a column twice.
RepeatedSelection == <<"sales", "sales">>

SEArgv(argc, data, atype, columns) ==
    [argc |-> argc, data |-> data, config |-> NoArg, atype |-> atype,
     columns |-> columns]

\* len(sys.argv) counts the script name: 4 is the three arguments required.
SECommandLines ==
    {SEArgv(n, Parsed(DefaultFrame), "exploratory", Parsed(<<>>)) : n \in {3, 5}}
    \cup {SEArgv(4, x, "exploratory", Parsed(<<>>)) : x \in {BadJson, NumberJson}}
    \cup {SEArgv(4, Parsed(DefaultFrame), "exploratory", BadJson)}
    \cup {SEArgv(4, Parsed(d), t, c) :
             d \in Datasets, t \in SETypes,
             c \in {NumberJson, Parsed(<<>>)} \cup {Parsed(l) : l \in ColumnLists}}
    \cup {SEArgv(4, Parsed(d), "time_series", Parsed(<<>>)) : d \in DatedFrames}
    \cup {SEArgv(4, Parsed(MkFrame(n, FALSE, sa, TRUE, "none")), "exploratory",
                 Parsed(RepeatedSelection)) :
              n \in 1..MaxRows, sa \in {"double", "gap"}}

\* "Filter to selected columns" and "Get numeric columns for analysis".
SelectColumns(data, selected_columns) ==
    LET available_cols == Filter(selected_columns, Range(Columns(data)))
        analysis_data ==
            IF selected_columns # <<>> /\ available_cols # <<>>
            THEN Project(data, available_cols)
            ELSE data
    IN [analysis_data |-> analysis_data,
        numeric_cols  |-> NumericColumns(analysis_data)]

\* except Exception as e: return {"error": f"Analysis failed: {str(e)}"}
AnalysisFailed(msg) == [error |-> "Analysis failed: " \o msg]

\* results.update(other)
Update(res, other) == other @@ res

\* The analysis branch analyze_data takes for an analysis type.
Branch(atype) ==
    IF atype \in {"time_series", "time_series_forecast"} THEN "time_series"
    ELSE IF atype \in {"regression_feature_importance", "pca_clustering",
                       "statistical_tests"} THEN atype
    ELSE "exploratory"

\* json.dumps(results): a numpy.bool_ is not serializable.  The significant flag
\* of a correlation test is one; is_normal is one or a bool with the scipy in use.
DumpOutcomes(res) ==
    IF "statistics" \notin DOMAIN res THEN {TRUE}
    ELSE IF "correlation_tests" \notin DOMAIN res.statistics THEN {TRUE}
    ELSE IF DOMAIN res.statistics.correlation_tests # {} THEN {FALSE}
    ELSE IF DOMAIN res.statistics.normality_tests # {} THEN {TRUE, FALSE}
    ELSE {TRUE}

R2Values == {30, 50, 90}

SE_CheckArgs ==
    /\ engine = SE /\ pc = "start"
    /\ IF argv.argc # 4
       THEN /\ stdout' = Append(stdout,
                [error |-> "Invalid arguments. Expected: data_json analysis_type selected_columns"])
            /\ pc' = "done"
            /\ exitCode' = 1
       ELSE /\ pc' = "parse"
            /\ UNCHANGED <<stdout, exitCode>>
    /\ UNCHANGED <<engine, argv, df, results, exc, locals>>

\* data_json = json.loads(sys.argv[1]); selected_columns = json.loads(sys.argv[3])
SE_Parse ==
    /\ engine = SE /\ pc = "parse"
    /\ IF argv.data.json = "bad" \/ argv.columns.json = "bad"
       THEN /\ exc' = "Expecting value: line 1 column 1 (char 0)"
            /\ pc' = "except"
       ELSE /\ pc' = "analyze"
            /\ exc' = exc
    /\ UNCHANGED <<engine, argv, df, results, stdout, exitCode, locals>>

\* analyze_data up to its dispatch: the frame, the empty check, the result
\* skeleton, the column selection.  An exception here is caught by analyze_data.
SE_Validate ==
    /\ engine = SE /\ pc = "analyze"
    /\ IF argv.data.json = "number"
       THEN /\ results' = AnalysisFailed("DataFrame constructor not properly called!")
            /\ pc' = "emit"
            /\ UNCHANGED <<df, locals>>
       ELSE IF IsEmpty(argv.data.val)
       THEN /\ results' = [error |-> "No data provided"]
            /\ pc' = "emit"
            /\ df' = argv.data.val
            /\ UNCHANGED locals
       ELSE IF argv.columns.json = "number"
       THEN /\ results' = AnalysisFailed("object of type 'int' has no len()")
            /\ pc' = "emit"
            /\ df' = argv.data.val
            /\ UNCHANGED locals
       ELSE LET chosen == SelectColumns(argv.data.val, argv.columns.val)
            IN /\ df' = argv.data.val
               /\ IF chosen.numeric_cols = <<>>
                  THEN /\ results' = [error |-> "No numeric columns found for analysis"]
                       /\ pc' = "emit"
                       /\ UNCHANGED locals
                  ELSE /\ results' =
                            [success |-> TRUE,
                             data_points_analyzed |-> argv.data.val.nrows,
                             columns_analyzed |-> Len(argv.columns.val),
                             analysis_type |-> argv.atype,
                             insights |-> <<>>,
                             statistics |-> <<>>,
                             recommendations |-> <<>>]
                       /\ locals' = chosen
                       /\ pc' = "dispatch"
    /\ UNCHANGED <<engine, argv, exc, stdout, exitCode>>

AtTimeSeries == engine = SE /\ pc = "dispatch" /\ Branch(argv.atype) = "time_series"

SE_TimeSeries ==
    /\ AtTimeSeries
    /\ results' = Update(results,
           perform_time_series_analysis(locals.analysis_data, locals.numeric_cols))
    /\ pc' = "emit"
    /\ UNCHANGED <<engine, argv, df, exc, stdout, exitCode, locals>>

SE_Regression ==
    /\ engine = SE /\ pc = "dispatch"
    /\ Branch(argv.atype) = "regression_feature_importance"
    /\ \E r2 \in R2Values :
          \E top_driver \in (IF Len(locals.numeric_cols) < 2 THEN {""}
                             ELSE Range(Front(locals.numeric_cols))) :
              results' = Update(results,
                  perform_regression_analysis(locals.analysis_data,
                                              locals.numeric_cols, r2, top_driver))
    /\ KeepX(locals.analysis_data, locals.numeric_cols)
    /\ pc' = "emit"
    /\ UNCHANGED <<engine, argv, df, exc, stdout, exitCode>>

SE_Clustering ==
    /\ engine = SE /\ pc = "dispatch" /\ Branch(argv.atype) = "pca_clustering"
    /\ LET n == Cardinality(CompleteRows(locals.analysis_data, locals.numeric_cols))
       IN \E k \in (IF ClusterCounts(n) = {} THEN {2} ELSE ClusterCounts(n)) :
              \E labels \in Labelings(n, k) :
                  results' = Update(results,
                      perform_clustering_analysis(locals.analysis_data,
                                                  locals.numeric_cols, k, labels))
    /\ KeepX(locals.analysis_data, locals.numeric_cols)
    /\ pc' = "emit"
    /\ UNCHANGED <<engine, argv, df, exc, stdout, exitCode>>

SE_StatisticalTests ==
    /\ engine = SE /\ pc = "dispatch" /\ Branch(argv.atype) = "statistical_tests"
    /\ \E normal \in SUBSET NormalityTested(locals.analysis_data, locals.numeric_cols) :
          \E significant \in
                 SUBSET CorrelationTested(locals.analysis_data, locals.numeric_cols) :
              results' = Update(results,
                  perform_statistical_tests(locals.analysis_data,
                                            locals.numeric_cols, normal, significant))
    /\ pc' = "emit"
    /\ UNCHANGED <<engine, argv, df, exc, stdout, exitCode, locals>>

AtExploratory == engine = SE /\ pc = "dispatch" /\ Branch(argv.atype) = "exploratory"

SE_Exploratory ==
    /\ AtExploratory
    /\ results' = Update(results,
           perform_exploratory_analysis(locals.analysis_data, locals.numeric_cols))
    /\ pc' = "emit"
    /\ UNCHANGED <<engine, argv, df, exc, stdout, exitCode, locals>>

\* print(json.dumps(results, indent=2)); the script then ends with status 0.
SE_Emit ==
    /\ engine = SE /\ pc = "emit"
    /\ \E dumped \in DumpOutcomes(results) :
          IF dumped
          THEN /\ stdout' = Append(stdout, results)
               /\ pc' = "done"
               /\ exitCode' = 0
               /\ exc' = exc
          ELSE /\ exc' = "Object of type bool_ is not JSON serializable"
               /\ pc' = "except"
               /\ UNCHANGED <<stdout, exitCode>>
    /\ UNCHANGED <<engine, argv, df, results, locals>>

\* except Exception as e: print the error object; sys.exit(1)
SE_Except ==
    /\ engine = SE /\ pc = "except"
    /\ stdout' = Append(stdout, [error |-> "Script execution failed: " \o exc])
    /\ pc' = "done"
    /\ exitCode' = 1
    /\ UNCHANGED <<engine, argv, df, results, exc, locals>>

----------------------------------------------------------------------------
Init ==
    /\ \/ engine = AE /\ argv \in AECommandLines
       \/ engine = SE /\ argv \in SECommandLines
    /\ pc = "start"
    /\ df = EmptyFrame
    /\ results = <<>>
    /\ exc = ""
    /\ stdout = <<>>
    /\ exitCode = -1
    /\ locals = <<>>

Next ==
    \/ AE_CheckArgs
    \/ AE_Load
    \/ AE_Correlation
    \/ AE_Regression
    \/ AE_Clustering
    \/ AE_StatisticalTests
    \/ AE_Forecast
    \/ AE_Comprehensive
    \/ AE_BatchCorrelation
    \/ AE_BatchRegression
    \/ AE_BatchClustering
    \/ AE_NoAnalysis
    \/ AE_Emit
    \/ AE_Except
    \/ SE_CheckArgs
    \/ SE_Parse
    \/ SE_Validate
    \/ SE_TimeSeries
    \/ SE_Regression
    \/ SE_Clustering
    \/ SE_StatisticalTests
    \/ SE_Exploratory
    \/ SE_Emit
    \/ SE_Except

Spec == Init /\ [][Next]_vars
----------------------------------------------------------------------------
(* Properties.  RowsGiven: the command line was accepted and its data      *)
(* argument parsed to a record collection.                                 *)

RowsGiven ==
    /\ argv.data.json = "value"
    /\ IF engine = AE THEN argv.argc >= 3 /\ argv.config.json = "value"
       ELSE argv.argc = 4 /\ argv.columns.json # "bad"

Printed == stdout[1]

\* C1: every invocation whose record collection has zero rows prints exactly
\* {"error": "No data provided"}, whatever the analysis type and the columns.
C1_EmptyInputIsNoDataError ==
    (pc = "done" /\ RowsGiven /\ argv.data.val.nrows = 0)
        => stdout = <<[error |-> "No data provided"]>>

\* The numeric columns left to a routine after the caller's restriction.
RestrictedNumeric ==
    IF engine = AE THEN SelectNumeric(argv.data.val, Get(cfg, "columns"))
    ELSE SelectColumns(argv.data.val, argv.columns.val).numeric_cols

\* C2: with fewer than 2 numeric columns the correlation analysis and every
\* clustering analysis return a result with an 'error' key and never raise.
C2_TooFewColumnsIsErrorResult ==
    /\ (/\ engine = AE /\ RowsGiven
        /\ analysis_type \in {"correlation", "clustering"}
        /\ Len(RestrictedNumeric) < 2
        /\ pc \in {"emit", "except", "done"})
           => /\ exc = ""
              /\ "error" \in DOMAIN results.analyses[analysis_type]
    /\ (/\ engine = SE /\ RowsGiven /\ argv.columns.json = "value"
        /\ Branch(argv.atype) = "pca_clustering"
        /\ Len(RestrictedNumeric) < 2
        /\ pc \in {"emit", "except", "done"})
           => /\ exc = ""
              /\ "error" \in DOMAIN results

\* What the column selector is to output: the numeric columns named by the
\* restriction, and all numeric columns when there is none of them.
ExpectedSelection(data, restriction) ==
    LET numeric == Range(NumericColumns(data))
    IN IF restriction \cap numeric # {} THEN restriction \cap numeric ELSE numeric

NoNumericError == [error |-> "No numeric columns found for analysis"]

\* C3: the selector outputs the numeric columns of the restriction, all numeric
\* columns when that intersection is empty, and the 'No numeric columns' error
\* only for a dataset with no numeric column.
C3_SelectorFallsBackToAllNumeric ==
    /\ (engine = SE /\ pc = "dispatch")
           => Range(locals.numeric_cols)
                  = ExpectedSelection(df, Range(argv.columns.val))
    /\ (engine = SE /\ pc = "emit" /\ results = NoNumericError)
           => NumericColumns(df) = <<>>
    /\ (/\ engine = AE /\ pc = "emit" /\ analysis_type = "clustering"
        /\ "features_used" \in DOMAIN results.analyses["clustering"])
           => Range(results.analyses["clustering"].features_used.names)
                  = ExpectedSelection(df,
                        IF "columns" \in DOMAIN cfg THEN Range(cfg.columns) ELSE {})

\* A batch whose correlation and regression can be computed and whose rows
\* are too few for the clusters of run_clustering_analysis.
BatchWithTooFewRows ==
    /\ engine = AE /\ RowsGiven /\ analysis_type = "comprehensive"
    /\ Len(NumericColumns(argv.data.val)) >= 2
    /\ ~Unfittable(argv.data.val, NumericColumns(argv.data.val))
    /\ argv.data.val.nrows < 3

\* C4: in a 'comprehensive' batch a precondition failure of one analysis is an
\* inline {error: ...} entry of that analysis; the data summary and the results
\* of the other analyses are in the emitted output.
C4_BatchKeepsOtherResults ==
    (pc = "done" /\ BatchWithTooFewRows)
        => /\ DOMAIN Printed = {"data_summary", "analyses"}
           /\ {"correlation", "regression", "clustering"} \subseteq DOMAIN Printed.analyses
           /\ "error" \in DOMAIN Printed.analyses["clustering"]
           /\ "error" \notin DOMAIN Printed.analyses["correlation"]
           /\ "error" \notin DOMAIN Printed.analyses["regression"]

ErrorObject(o) == DOMAIN o = {"error"}

StructuredResult(o) ==
    IF engine = AE THEN DOMAIN o = {"data_summary", "analyses"}
    ELSE "success" \in DOMAIN o

\* The process has a next step: an action is enabled.  The five actions that
\* only assign the value of a routine are enabled where their guard holds.
CanStep ==
    \/ AtCorrelation \/ AtForecast \/ AtBatchCorrelation
    \/ AtTimeSeries \/ AtExploratory
    \/ ENABLED (\/ AE_CheckArgs \/ AE_Load \/ AE_Regression \/ AE_Clustering
                \/ AE_StatisticalTests \/ AE_Comprehensive
                \/ AE_BatchRegression \/ AE_BatchClustering \/ AE_NoAnalysis
                \/ AE_Emit \/ AE_Except
                \/ SE_CheckArgs \/ SE_Parse \/ SE_Validate
                \/ SE_Regression \/ SE_Clustering \/ SE_StatisticalTests
                \/ SE_Emit \/ SE_Except)

\* C5: on every path of either entry point exactly one JSON object is printed,
\* an {"error": message} object or the structured result, and no exception
\* leaves the entry point: nothing is printed before the last step, every
\* position before the end has a next step, and the end has printed one object.
C5_ExactlyOneJsonObject ==
    /\ pc # "crashed"
    /\ pc # "done" => stdout = <<>> /\ exitCode = -1 /\ CanStep
    /\ pc = "done" => /\ Len(stdout) = 1
                      /\ ErrorObject(Printed) \/ StructuredResult(Printed)
                      /\ exitCode \in {0, 1}

\* A run that printed the structured result after a routine returned, and one
\* whose result could not be serialized and was replaced by the error object.
C5_Witness ==
    /\ pc = "done" /\ engine = AE /\ Len(stdout) = 1
    /\ exc = "Object is not JSON serializable"
    /\ Printed = [error |-> "Analysis failed: Object is not JSON serializable"]

\* The exception texts of the runs modelled.
ExceptionTexts ==
    {"DataFrame constructor not properly called!",
     "object of type 'int' has no len()",
     "Expecting value: line 1 column 1 (char 0)",
     "Object of type bool_ is not JSON serializable"}

\* The outputs that report a caught exception: {"error": "... failed: <message>"}.
ConvertedErrors ==
    {AnalysisFailed(m) : m \in ExceptionTexts}
    \cup {[error |-> "Script execution failed: " \o m] : m \in ExceptionTexts}

\* C6: in the strict-argument script, whenever a caught exception is printed as
\* {error: "... failed: <message>"} the process exits with a non-zero status.
C6_ConvertedErrorExitsNonZero ==
    (engine = SE /\ pc = "done" /\ Printed \in ConvertedErrors) => exitCode # 0

\* A printed analysis result that holds the cells of an input column, or one
\* entry per input row.
HoldsColumn(r) ==
    /\ "historical_data" \in DOMAIN r
    /\ \E i \in DOMAIN df.cols : r.historical_data = DropNa(df.cols[i])

HoldsPerRow(r) ==
    /\ "cluster_assignments" \in DOMAIN r
    /\ Len(r.cluster_assignments) = df.nrows

\* C7: no emitted result holds raw row-level data: neither the per-row values
\* of an input column nor a sequence with one entry per input row.
C7_NoRowLevelData ==
    (engine = AE /\ pc = "done" /\ "analyses" \in DOMAIN Printed)
        => \A a \in DOMAIN Printed.analyses :
               ~HoldsColumn(Printed.analyses[a]) /\ ~HoldsPerRow(Printed.analyses[a])

\* The regression requests whose precondition fails.
AE_RegressionPreconditionFails ==
    /\ engine = AE /\ RowsGiven /\ analysis_type = "regression"
    /\ \/ "target_column" \notin DOMAIN cfg
       \/ ~HasColumn(argv.data.val, cfg.target_column)
       \/ "feature_columns" \in DOMAIN cfg /\ cfg.feature_columns = <<>>
       \/ /\ "feature_columns" \notin DOMAIN cfg
          /\ Range(NumericColumns(argv.data.val)) \subseteq {cfg.target_column}

SE_RegressionPreconditionFails ==
    /\ engine = SE /\ RowsGiven /\ argv.columns.json = "value"
    /\ ~IsEmpty(argv.data.val)
    /\ Branch(argv.atype) = "regression_feature_importance"
    /\ Len(RestrictedNumeric) < 2

\* C8: a regression request whose precondition fails (no target in the request,
\* target not in the dataset, no feature columns) gets an error-shaped result
\* from the routine: the routine neither raises nor returns an error-free result.
C8_RegressionPreconditionIsErrorResult ==
    /\ (AE_RegressionPreconditionFails /\ pc \in {"emit", "except", "done"})
           => /\ exc = ""
              /\ "regression" \in DOMAIN results.analyses
              /\ "error" \in DOMAIN results.analyses["regression"]
    /\ (SE_RegressionPreconditionFails /\ pc \in {"emit", "except", "done"})
           => /\ exc = ""
              /\ "error" \in DOMAIN results

\* |r| >= a/b for a coefficient r kept as its sign and its square num/den.
MagnitudeAtLeast(r, a, b) == ~r.nan /\ b * b * r.num >= a * a * r.den

MagnitudeAbove(r, a, b) == ~r.nan /\ b * b * r.num > a * a * r.den

\* The label the four buckets give to |r|.
FourBuckets(r) ==
    IF MagnitudeAtLeast(r, 7, 10) THEN "Strong"
    ELSE IF MagnitudeAtLeast(r, 3, 10) THEN "Moderate"
    ELSE IF MagnitudeAtLeast(r, 1, 10) THEN "Weak"
    ELSE "Very Weak"

\* The label of the three-level scale: strong above 0.7, moderate above 0.4.
ThreeLevels(r) ==
    IF MagnitudeAbove(r, 7, 10) THEN "strong"
    ELSE IF MagnitudeAbove(r, 4, 10) THEN "moderate"
    ELSE "weak"

\* A label whatever its case.
Capitalized(label) ==
    CASE label = "strong" -> "Strong"
      [] label = "moderate" -> "Moderate"
      [] label = "weak" -> "Weak"
      [] OTHER -> label

\* The pairs reported: top_correlations of the correlation analysis (alone or
\* in a batch) and correlation_tests of the statistical-tests sweep.
HasTopCorrelations ==
    /\ engine = AE /\ pc \in {"batch_regression", "batch_clustering", "emit", "done"}
    /\ "analyses" \in DOMAIN results
    /\ "correlation" \in DOMAIN results.analyses
    /\ "top_correlations" \in DOMAIN results.analyses["correlation"]

TopCorrelations == results.analyses["correlation"].top_correlations

HasCorrelationTests ==
    /\ engine = SE /\ pc = "emit"
    /\ Branch(argv.atype) = "statistical_tests"
    /\ "statistics" \in DOMAIN results
    /\ "correlation_tests" \in DOMAIN results.statistics

CorrelationTests == results.statistics.correlation_tests

\* The example: rows x = 1, 2, 3 / y = 2, 4, 6 (month and sales of DefaultFrame).
ExampleRun ==
    /\ engine = AE /\ RowsGiven /\ argv.data.val = DefaultFrame
    /\ cfg = [type |-> "correlation"] /\ pc = "done"

\* C9 as amended: every pair of top_correlations is labelled by |r| with the
\* four buckets Strong >= 0.7, Moderate >= 0.3, Weak >= 0.1, Very Weak below;
\* every pair of correlation_tests is labelled strong when |r| > 0.7, moderate
\* when 0.4 < |r| <= 0.7 and weak otherwise; the example's pair has r = 1 and
\* is printed with the label Strong.
C9_StrengthBucketsPerRoutine ==
    /\ HasTopCorrelations =>
           \A k \in DOMAIN TopCorrelations :
               TopCorrelations[k].strength = FourBuckets(TopCorrelations[k].correlation)
    /\ HasCorrelationTests =>
           \A p \in DOMAIN CorrelationTests :
               CorrelationTests[p].strength = ThreeLevels(CorrelationTests[p].correlation)
    /\ ExampleRun =>
           /\ Len(Printed.analyses["correlation"].top_correlations) = 1
           /\ LET e == Printed.analyses["correlation"].top_correlations[1]
              IN /\ e.correlation.sgn = 1 /\ e.correlation.num = e.correlation.den
                 /\ e.strength = "Strong"

\* C9 as claimed: the four buckets label every reported pair, those of
\* correlation_tests too (whatever the case of the label).
C9_FourBucketsEverywhere ==
    /\ HasTopCorrelations =>
           \A k \in DOMAIN TopCorrelations :
               TopCorrelations[k].strength = FourBuckets(TopCorrelations[k].correlation)
    /\ HasCorrelationTests =>
           \A p \in DOMAIN CorrelationTests :
               Capitalized(CorrelationTests[p].strength)
                   = FourBuckets(CorrelationTests[p].correlation)

\* The sweep returned a pair with 0.3 <= |r| <= 0.4, labelled weak.
C9_Witness ==
    /\ HasCorrelationTests
    /\ \E p \in DOMAIN CorrelationTests :
           /\ MagnitudeAtLeast(CorrelationTests[p].correlation, 3, 10)
           /\ ~MagnitudeAbove(CorrelationTests[p].correlation, 4, 10)
           /\ CorrelationTests[p].strength = "weak"

\* The correlation analysis printed a pair with r <= -0.7, labelled Strong.
C9_NegativeStrong ==
    /\ HasTopCorrelations /\ pc = "done"
    /\ \E k \in DOMAIN TopCorrelations :
           /\ TopCorrelations[k].correlation.sgn = -1
           /\ TopCorrelations[k].strength = "Strong"

\* A forecast that succeeded, and its horizon.
HasForecast ==
    /\ engine = AE /\ pc \in {"emit", "done"} /\ RowsGiven
    /\ analysis_type = "forecast"
    /\ "analyses" \in DOMAIN results
    /\ "forecast" \in DOMAIN results.analyses
    /\ "forecast" \in DOMAIN results.analyses["forecast"]

Forecast == results.analyses["forecast"]

Horizon == IF "periods" \in DOMAIN cfg THEN cfg.periods ELSE 6

\* a - b for two values num/den + (half/100) * std_error of one forecast
Minus(a, b) == [num |-> a.num - b.num, half |-> a.half - b.half]

\* C10: a successful forecast with horizon 'periods' has 'periods' entries in
\* forecast, forecast_upper and forecast_lower, and at every index
\* forecast_upper - forecast = forecast - forecast_lower >= 0, the same
\* half-width at every index.
C10_ForecastBandSymmetric ==
    HasForecast =>
        /\ Len(Forecast.forecast) = Horizon
        /\ Len(Forecast.forecast_upper) = Horizon
        /\ Len(Forecast.forecast_lower) = Horizon
        /\ \A i \in 1..Horizon :
               LET up   == Minus(Forecast.forecast_upper[i], Forecast.forecast[i])
                   down == Minus(Forecast.forecast[i], Forecast.forecast_lower[i])
               IN /\ up = down
                  /\ up.num = 0 /\ up.half >= 0
                  /\ up = Minus(Forecast.forecast_upper[1], Forecast.forecast[1])

\* A forecast of two periods was printed for a series with a residual error.
C10_Witness ==
    /\ HasForecast /\ pc = "done" /\ Len(stdout) = 1
    /\ "forecast" \in DOMAIN Printed.analyses
    /\ Horizon = 2 /\ Len(Printed.analyses["forecast"].forecast) = 2
    /\ Printed.analyses["forecast"].std_error_squared.num > 0

\* The clustering results of the two engines.
HasClusterSummary ==
    /\ engine = AE /\ pc \in {"batch_clustering", "emit", "done"}
    /\ "analyses" \in DOMAIN results
    /\ "clustering" \in DOMAIN results.analyses
    /\ "cluster_summary" \in DOMAIN results.analyses["clustering"]

ClusterSummary == results.analyses["clustering"].cluster_summary

HasClusterStatistics ==
    /\ engine = SE /\ pc \in {"emit", "done"}
    /\ "statistics" \in DOMAIN results
    /\ "cluster_statistics" \in DOMAIN results.statistics

ClusterStatistics == results.statistics.cluster_statistics

\* The sizes and the percentages (numerators over one denominator) of the
\* clusters of a result, as sequences.
SummarySizes == [i \in DOMAIN ClusterSummary |-> ClusterSummary[i].size]

SummaryPercentages == [i \in DOMAIN ClusterSummary |-> ClusterSummary[i].percentage.num]

StatisticsSizes ==
    [i \in 1..Cardinality(DOMAIN ClusterStatistics) |-> ClusterStatistics[i - 1].size]

StatisticsPercentages ==
    [i \in 1..Cardinality(DOMAIN ClusterStatistics) |->
        ClusterStatistics[i - 1].percentage.num]

\* The rows of the input that miss no value of an analyzed numeric column.
RowsWithoutMissing ==
    Cardinality({r \in 1..df.nrows :
        \A i \in DOMAIN locals.numeric_cols :
            \A j \in DOMAIN df.cols :
                df.cols[j].name = locals.numeric_cols[i] => r \notin df.cols[j].miss})

\* C11 as amended: in every successful clustering result the percentages sum
\* to 100 and the sizes sum to the number of rows clustered: every input row in
\* run_clustering_analysis, the rows with no missing value in the analyzed
\* numeric columns in perform_clustering_analysis.
C11_ClustersPartitionClusteredRows ==
    /\ HasClusterSummary =>
           /\ SumSeq(SummarySizes) = df.nrows
           /\ \A i \in DOMAIN ClusterSummary : ClusterSummary[i].percentage.den = df.nrows
           /\ SumSeq(SummaryPercentages) = 100 * df.nrows
    /\ HasClusterStatistics =>
           /\ SumSeq(StatisticsSizes) = RowsWithoutMissing
           /\ \A i \in DOMAIN ClusterStatistics :
                  ClusterStatistics[i].percentage.den = RowsWithoutMissing
           /\ SumSeq(StatisticsPercentages) = 100 * RowsWithoutMissing

\* C11 as claimed: in both engines the sizes sum to the number of input rows
\* and the percentages to 100, also with missing values.
C11_ClustersPartitionInputRows ==
    /\ HasClusterSummary =>
           /\ SumSeq(SummarySizes) = df.nrows
           /\ SumSeq(SummaryPercentages) = 100 * df.nrows
    /\ HasClusterStatistics =>
           /\ SumSeq(StatisticsSizes) = df.nrows
           /\ \A i \in DOMAIN ClusterStatistics :
                  SumSeq(StatisticsPercentages) = 100 * ClusterStatistics[i].percentage.den

\* perform_clustering_analysis clustered data of which a row misses a value.
C11_Witness ==
    /\ HasClusterStatistics /\ pc = "done"
    /\ RowsWithoutMissing < df.nrows
    /\ SumSeq(StatisticsSizes) = RowsWithoutMissing

\* run_clustering_analysis clustered data of which a row misses a value.
C11_ImputedRows ==
    /\ HasClusterSummary /\ pc = "done"
    /\ \E j \in DOMAIN df.cols : df.cols[j].numeric /\ df.cols[j].miss # {}
    /\ SumSeq(SummarySizes) = df.nrows

\* The matrix X the regression or clustering routine of a request built.
BuiltX(type) ==
    /\ RowsGiven /\ "X" \in DOMAIN locals
    /\ IF engine = AE THEN analysis_type = type /\ pc \in {"emit", "except", "done"}
       ELSE /\ pc \in {"emit", "done"}
            /\ Branch(argv.atype) = (IF type = "regression"
                                     THEN "regression_feature_importance"
                                     ELSE "pca_clustering")

\* The cells of the columns of X that miss a value in the input.
MissingCells(X) ==
    {c \in (1..df.nrows) \X Range(X.cols) :
        \E j \in DOMAIN df.cols : df.cols[j].name = c[2] /\ c[1] \in df.cols[j].miss}

\* X with every missing value replaced (by the column mean), and X as the
\* non-missing subset of the input with no value replaced.
MeanImputed(X) == X.rows = 1..df.nrows /\ X.filled = MissingCells(X)

NonMissingSubset(X) ==
    /\ X.filled = {}
    /\ X.rows = {r \in 1..df.nrows : \A c \in MissingCells(X) : c[1] # r}

\* C12: missing values are replaced by the column mean in the regression
\* matrices, always, and nowhere else: clustering computes on the non-missing
\* subset, and the forecast on the non-missing values of its series.
C12_ImputationOnlyInRegression ==
    /\ BuiltX("regression") => MeanImputed(locals.X)
    /\ BuiltX("clustering") => NonMissingSubset(locals.X)
    /\ HasForecast =>
           \E j \in DOMAIN df.cols :
               /\ df.cols[j].name = Forecast.target_column
               /\ Len(Forecast.historical_data) = df.nrows - Cardinality(df.cols[j].miss)

\* The time-series analysis has returned.
HasTimeSeries ==
    /\ engine = SE /\ pc \in {"emit", "done"} /\ RowsGiven
    /\ argv.columns.json = "value"
    /\ Branch(argv.atype) = "time_series"
    /\ "success" \in DOMAIN results

\* The column names that hold 'month', 'date' or 'time' once lower-cased.
NamesTime(name) == name \in {"month", "Order_Date"}

\* The columns designated: the first whose name matches, and the first of all
\* when no name matches.
Designated ==
    LET names == Columns(locals.analysis_data)
    IN {names[i] : i \in {i \in DOMAIN names :
           \/ NamesTime(names[i]) /\ \A j \in 1..(i - 1) : ~NamesTime(names[j])
           \/ i = 1 /\ \A j \in DOMAIN names : ~NamesTime(names[j])}}

\* The numeric columns with more than 3 non-missing values.
LongSeries ==
    {c \in Range(locals.numeric_cols) :
        \E j \in DOMAIN df.cols :
            df.cols[j].name = c /\ df.nrows - Cardinality(df.cols[j].miss) > 3}

\* C13: the time-series analysis designates exactly one time column, the first
\* column whose lower-cased name contains 'month', 'date' or 'time' and else
\* the first column; the result has no statistics or insights entry for it and
\* one for every other numeric column with more than 3 non-missing values.
C13_OneTimeColumnLeftOut ==
    HasTimeSeries =>
        /\ Cardinality(Designated) = 1
        /\ DOMAIN results.statistics = LongSeries \ Designated
        /\ DOMAIN results.insights = LongSeries \ Designated

\* The analysis of a frame whose first column Order_Date is the time column:
\* the numeric column month, a later match, has its entry.
C13_Witness ==
    /\ HasTimeSeries /\ pc = "done"
    /\ Columns(df)[1] = "Order_Date"
    /\ Designated = {"Order_Date"}
    /\ "month" \in DOMAIN Printed.statistics

\* A regression of analysis_engine.py that fitted its two models.
HasRegression ==
    /\ engine = AE /\ pc \in {"batch_clustering", "emit", "done"}
    /\ "analyses" \in DOMAIN results
    /\ "regression" \in DOMAIN results.analyses
    /\ "model_comparison" \in DOMAIN results.analyses["regression"]

Regression == results.analyses["regression"]

\* C14: model_comparison is 'Random Forest' exactly when the forest's R2 is
\* strictly greater than the linear model's and 'Linear Regression' otherwise,
\* a tie included; the summary reports the larger of the two R2 values.
C14_PreferredModelHasHigherR2 ==
    HasRegression =>
        /\ Regression.model_comparison \in {"Random Forest", "Linear Regression"}
        /\ Regression.model_comparison = "Random Forest"
               <=> Regression.random_forest_r2 > Regression.linear_regression_r2
        /\ Regression.summary.explains
               \in {Regression.random_forest_r2, Regression.linear_regression_r2}
        /\ Regression.summary.explains >= Regression.random_forest_r2
        /\ Regression.summary.explains >= Regression.linear_regression_r2

\* A printed regression whose two models tie: 'Linear Regression' is preferred.
C14_Witness ==
    /\ HasRegression /\ pc = "done" /\ Len(stdout) = 1
    /\ "regression" \in DOMAIN Printed.analyses
    /\ Regression.random_forest_r2 = Regression.linear_regression_r2
    /\ Printed.analyses["regression"].model_comparison = "Linear Regression"

\* A printed regression whose forest scores higher.
C14_ForestPreferred ==
    /\ HasRegression /\ pc = "done"
    /\ Regression.random_forest_r2 > Regression.linear_regression_r2
    /\ Regression.model_comparison = "Random Forest"

\* The exploratory analysis has returned.
HasExploratory ==
    /\ engine = SE /\ pc \in {"emit", "done"} /\ RowsGiven
    /\ argv.columns.json = "value"
    /\ Branch(argv.atype) = "exploratory"
    /\ "success" \in DOMAIN results

ColumnStatistics == results.statistics.column_statistics

HighVarianceColumns == results.statistics.high_variance_columns

\* The analyzed columns with at least one non-missing value, in column order.
ColumnsWithValues ==
    SelectSeq(locals.numeric_cols,
              LAMBDA c : \E j \in DOMAIN df.cols :
                             df.cols[j].name = c /\ df.cols[j].miss # 1..df.nrows)

\* The reported variances num/den over one denominator: the product of all.
RECURSIVE DenProduct(_)
DenProduct(cols) ==
    IF cols = <<>> THEN 1 ELSE ColumnStatistics[Head(cols)].variance.den * DenProduct(Tail(cols))

Scaled(c) ==
    ColumnStatistics[c].variance.num
        * (DenProduct(ColumnsWithValues) \div ColumnStatistics[c].variance.den)

\* variance(c) > 1.5 * mean of the variances; false when a variance is NaN.
ExceedsMeanVariance(c) ==
    /\ \A i \in DOMAIN ColumnsWithValues : ~ColumnStatistics[ColumnsWithValues[i]].variance.nan
    /\ 2 * Len(ColumnsWithValues) * Scaled(c)
           > 3 * SumSeq([i \in DOMAIN ColumnsWithValues |-> Scaled(ColumnsWithValues[i])])

\* C15: a column is in high_variance_columns if and only if its variance is
\* strictly greater than 1.5 times the mean variance of the analyzed columns
\* with at least one non-missing value; a single analyzed column is never
\* flagged, and the analysis succeeds when no column has a value.
C15_HighVarianceAboveThreshold ==
    /\ (HasExploratory /\ ColumnsWithValues = <<>>) => "error" \notin DOMAIN results
    /\ (HasExploratory /\ "error" \notin DOMAIN results) =>
        /\ DOMAIN ColumnStatistics = Range(ColumnsWithValues)
        /\ \A c \in Range(ColumnsWithValues) :
               c \in Range(HighVarianceColumns) <=> ExceedsMeanVariance(c)
        /\ Range(HighVarianceColumns) \subseteq Range(ColumnsWithValues)
        /\ Len(ColumnsWithValues) = 1 => HighVarianceColumns = <<>>
        /\ ColumnsWithValues = <<>> => HighVarianceColumns = <<>>

\* A printed analysis of several columns that flags one and not another.
C15_Witness ==
    /\ HasExploratory /\ pc = "done" /\ Len(stdout) = 1
    /\ Len(ColumnsWithValues) >= 2
    /\ Printed.statistics.high_variance_columns # <<>>
    /\ \E c \in Range(ColumnsWithValues) : c \notin Range(HighVarianceColumns)

\* An analysis of columns that hold no value at all.
C15_NoValues ==
    /\ HasExploratory /\ pc = "done"
    /\ locals.numeric_cols # <<>> /\ ColumnsWithValues = <<>>

\* An analysis of a single column with a positive variance.
C15_SingleColumn ==
    /\ HasExploratory /\ pc = "done"
    /\ Len(ColumnsWithValues) = 1
    /\ ColumnStatistics[ColumnsWithValues[1]].variance.num > 0

\* run_clustering_analysis has come to its final fit with a count it chose.
AE_HeuristicFit ==
    /\ engine = AE /\ RowsGiven /\ pc \in {"emit", "except", "done"}
    /\ analysis_type \in {"clustering", "comprehensive"}
    /\ "n_clusters" \in DOMAIN locals
    /\ analysis_type = "clustering" => "n_clusters" \notin DOMAIN cfg

\* perform_clustering_analysis has returned.
SE_ClusteringReturned ==
    /\ engine = SE /\ RowsGiven /\ pc \in {"emit", "done"}
    /\ Branch(argv.atype) = "pca_clustering"
    /\ "success" \in DOMAIN results

RowsClustered == Cardinality(locals.X.rows)

\* The part of C16 about run_clustering_analysis: the count is a swept value
\* in 2..6 or the fallback 3, and no more than the rows clustered.
C16_ElbowCountWithinRows ==
    AE_HeuristicFit =>
        /\ locals.n_clusters \in 2..6
        /\ locals.n_clusters >= 2 /\ locals.n_clusters <= RowsClustered

\* The part of C16 about the PCA variant: the count is in 2..5 and strictly
\* less than the number of complete rows, and with fewer than 3 complete rows
\* the routine returns without a fit.
C16_PcaCountBelowCompleteRows ==
    SE_ClusteringReturned =>
        /\ HasClusterStatistics =>
               /\ "X" \in DOMAIN locals
               /\ results.statistics.optimal_clusters \in 2..5
               /\ results.statistics.optimal_clusters < RowsClustered
        /\ ("X" \in DOMAIN locals /\ RowsClustered < 3) => ~HasClusterStatistics

\* C16: whenever a clustering routine reaches its final k-means fit with a
\* cluster count k it chose itself, k is at least 2 and at most the number of
\* rows clustered (with fewer rows it returns without fitting); k is in 2..5
\* and below the number of complete rows in the PCA variant, and a swept value
\* in 2..6 or the fallback 3 in run_clustering_analysis.
C16_HeuristicCountWithinRows ==
    C16_ElbowCountWithinRows /\ C16_PcaCountBelowCompleteRows

\* The PCA variant has fitted a count it chose among several.
C16_PcaFit ==
    /\ SE_ClusteringReturned /\ HasClusterStatistics /\ pc = "done"
    /\ results.statistics.optimal_clusters = 3

\* run_clustering_analysis fits its fallback count to fewer rows.
C16_FallbackAboveRows ==
    /\ AE_HeuristicFit /\ pc = "done"
    /\ locals.n_clusters = 3 /\ RowsClustered = 2
    /\ locals.X.filled = {}

\* analyze_data has returned its result.
Returned == engine = SE /\ pc \in {"emit", "done"} /\ RowsGiven

ErrorShape(r) == "error" \in DOMAIN r /\ "success" \notin DOMAIN r

SuccessShape(r) == "success" \in DOMAIN r /\ r.success = TRUE /\ "error" \notin DOMAIN r

\* C17: every result analyze_data returns is an error result with an 'error'
\* key and no 'success' key, or a success result with 'success': true and no
\* 'error' key; none carries both, whatever fails inside a per-type routine.
C17_ResultIsErrorOrSuccess ==
    Returned => ErrorShape(results) \/ SuccessShape(results)

\* A per-type routine failed and its result was printed with both keys.
C17_BothKeysPrinted ==
    /\ Returned /\ pc = "done" /\ exitCode = 0
    /\ "error" \in DOMAIN Printed /\ "success" \in DOMAIN Printed

\* The results of the other kinds: analyze_data's own errors and successes.
C17_PlainShapes ==
    (Returned /\ ~(argv.columns.json = "value" /\ argv.columns.val = RepeatedSelection)) =>
        ErrorShape(results) \/ SuccessShape(results)

====
